---- MODULE Spec2Model ----
(***************************************************************************)
(* Stock ledger engine of countday: the batch, count, item_count and       *)
(* count_drift tables, and the StockService / CountService / BatchService   *)
(* operations that read and write them.                                    *)
(*                                                                         *)
(* Quantities are integers (the columns are SQLite reals; every operation  *)
(* modelled only adds, subtracts, compares and copies them).  Timestamps   *)
(* are the values of a logical clock: nowIso() returns a fixed-width ISO   *)
(* string, so text order is clock order.  An id is the row's position in   *)
(* its table (the code draws uuids; no operation compares ids for order).  *)
(* The item table is fixed: no modelled operation inserts or deletes items *)
(* and the item_form table is empty, so an id resolves iff it is in Items. *)
(***************************************************************************)
EXTENDS Integers, Sequences, FiniteSets, TLC

\* ------------------------------------------------------------------ bounds
MaxBatches == 2
MaxQty == 2
MaxClock == 2
MaxCounts == 1
MaxItemCounts == 2
MaxStored == 2

\* ------------------------------------------------------- program constants
\* SQL NULL, the value of a nullable column that was never set.
NULL == 0

\* The rows of the item table.
Items == {"X", "Y"}

\* An id that resolves to no item.
NoItem == "none"

\* An optional item id argument that the caller leaves out.
Undefined == "undefined"

BatchStatusValues == {"active", "archived", "expired"}

FIFO == "FIFO"
LIFO == "LIFO"
FEFO == "FEFO"
ConsumptionMethod == {FIFO, LIFO, FEFO}

\* The callers of the ledger that run concurrently.
Procs == {"p1", "p2"}

VARIABLES
    batches,      \* batch table: id -> [itemId, qty, status, createdDate, expiryDate, stockoutDate]
    counts,       \* count table: id -> [finishedDate]
    itemCounts,   \* item_count table, in insertion order
    drifts,       \* count_drift table: set of [countId, itemId, qtyChange, driftDate]
    now,          \* the wall clock read by nowIso() / new Date()
    calls,        \* per caller: the consume call it is in the middle of
    last          \* the operation that ran last, its inputs and its result

vars == <<batches, counts, itemCounts, drifts, now, calls, last>>
db == <<batches, counts, itemCounts, drifts>>

\* ------------------------------------------------------------------ helpers
Min(a, b) == IF a <= b THEN a ELSE b
Max(a, b) == IF a >= b THEN a ELSE b
Abs(a) == IF a < 0 THEN -a ELSE a

RECURSIVE SumOver(_, _)
SumOver(S, f) ==
    IF S = {} THEN 0
    ELSE LET x == CHOOSE y \in S : TRUE IN f[x] + SumOver(S \ {x}, f)

BatchIds == DOMAIN batches
CountIds == DOMAIN counts

Idle == [pc |-> "idle", itemId |-> NoItem, quantity |-> 0, method |-> FIFO, snap |-> <<>>]

Result(op, ok, ret, arg) == [op |-> op, ok |-> ok, ret |-> ret, arg |-> arg]

\* SQL comparison: a comparison with NULL is unknown, and a WHERE clause keeps
\* a row only when its condition is true.
SqlEq(a, b) == IF a = NULL \/ b = NULL THEN "unknown" ELSE IF a = b THEN "true" ELSE "false"
SqlTrue(v) == v = "true"

\* SQLite ORDER BY: NULL sorts before every value ascending, after every value
\* descending.
SqlLess(a, b) == IF a = NULL THEN b # NULL ELSE IF b = NULL THEN FALSE ELSE a < b


\* ------------------------------------------------- util/order-by-build.ts
\* The ORDER BY terms for an order definition: one per key, first occurrence
\* wins, in input order.  An input that is a single term is a list of one.
RECURSIVE OrderTerms(_, _)
OrderTerms(input, seen) ==
    IF input = <<>> THEN <<>>
    ELSE LET col == Head(input) IN
         IF col.key \in seen THEN OrderTerms(Tail(input), seen)
         ELSE <<col>> \o OrderTerms(Tail(input), seen \cup {col.key})

createOrderByValue(input) == OrderTerms(input, {})

\* TRUE iff ORDER BY `order` must place row a before row b.
RECURSIVE SortsBefore(_, _, _)
SortsBefore(a, b, order) ==
    IF order = <<>> THEN FALSE
    ELSE LET o == Head(order)
             lt == IF o.dir = "asc" THEN SqlLess(a[o.key], b[o.key]) ELSE SqlLess(b[o.key], a[o.key])
             gt == IF o.dir = "asc" THEN SqlLess(b[o.key], a[o.key]) ELSE SqlLess(a[o.key], b[o.key])
         IN IF lt THEN TRUE ELSE IF gt THEN FALSE ELSE SortsBefore(a, b, Tail(order))

\* Every listing of the ids in S that ORDER BY `order` can return: rows that
\* compare equal on all terms come back in an order SQL leaves open.
OrderedListings(bs, S, order) ==
    LET n == Cardinality(S) IN
    { s \in [1..n -> S] :
        /\ \A i, j \in 1..n : i # j => s[i] # s[j]
        /\ \A i, j \in 1..n : i < j => ~SortsBefore(bs[s[j]], bs[s[i]], order) }

\* ------------------------------------------------------- service/stock.ts
consumptionMethodOrdersSwapped ==
    [m \in ConsumptionMethod |->
        CASE m = FIFO -> <<[key |-> "createdDate", dir |-> "desc"]>>
          [] m = LIFO -> <<[key |-> "createdDate", dir |-> "asc"]>>
          [] m = FEFO -> <<[key |-> "expiryDate", dir |-> "asc"],
                           [key |-> "createdDate", dir |-> "asc"]>>]

consumptionMethodOrders ==
    [m \in ConsumptionMethod |->
        CASE m = FIFO -> <<[key |-> "createdDate", dir |-> "asc"]>>
          [] m = LIFO -> <<[key |-> "createdDate", dir |-> "desc"]>>
          [] m = FEFO -> <<[key |-> "expiryDate", dir |-> "asc"],
                           [key |-> "createdDate", dir |-> "asc"]>>]

\* notInArray(batchTable.id, values): with no values the condition is `true`.
notInArray(id, values) == IF values = {} THEN TRUE ELSE id \notin values

\* _getAllByItem without the status condition of the filter.
getAllByItemAnyStatus(bs, itemId, orderBy, excluded) ==
    LET S == { id \in DOMAIN bs :
                 /\ bs[id].itemId = itemId
                 /\ notInArray(id, excluded) }
    IN { [i \in DOMAIN s |-> [id |-> s[i], qty |-> bs[s[i]].qty]] :
           s \in OrderedListings(bs, S, createOrderByValue(orderBy)) }

\* BatchService._getAllByItem with the filter consume passes: the item's active
\* batches outside `excluded`, as [id, qty] rows in one of the possible orders.
getAllByItem(bs, itemId, orderBy, excluded) ==
    LET S == { id \in DOMAIN bs :
                 /\ bs[id].itemId = itemId
                 /\ bs[id].status = "active"
                 /\ notInArray(id, excluded) }
    IN { [i \in DOMAIN s |-> [id |-> s[i], qty |-> bs[s[i]].qty]] :
           s \in OrderedListings(bs, S, createOrderByValue(orderBy)) }

\* getItemQty without the extra condition.
getItemQtyUnfiltered(bs, itemId, qtyType, excluded) ==
    LET S == { id \in DOMAIN bs :
                 /\ bs[id].itemId = itemId
                 /\ bs[id].status = qtyType }
    IN SumOver(S, [id \in S |-> bs[id].qty])

\* StockService.getItemQty: sum of qty over the item's batches of one status
\* that satisfy the extra condition; asNumber turns the NULL of an empty sum
\* into 0.
getItemQty(bs, itemId, qtyType, excluded) ==
    LET S == { id \in DOMAIN bs :
                 /\ bs[id].itemId = itemId
                 /\ bs[id].status = qtyType
                 /\ notInArray(id, excluded) }
    IN SumOver(S, [id \in S |-> bs[id].qty])

\* BatchService.update with the partial the consume walk builds.
WalkUpdateNoArchive(b, newQty, t) == [b EXCEPT !.qty = newQty]

WalkUpdate(b, newQty, t) ==
    IF newQty = 0
    THEN [b EXCEPT !.qty = newQty, !.status = "archived", !.stockoutDate = t]
    ELSE [b EXCEPT !.qty = newQty]

\* The loop of consume over the rows it read: the batch table it leaves and
\* the quantity it could not remove.
RECURSIVE WalkWholeBatch(_, _, _, _)
WalkWholeBatch(bs, snap, remaining, t) ==
    IF snap = <<>> \/ remaining <= 0
    THEN [batches |-> bs, remaining |-> remaining]
    ELSE LET batch == Head(snap)
             qtyToRemove == batch.qty
             newQty == batch.qty - qtyToRemove
         IN WalkWholeBatch([bs EXCEPT ![batch.id] = WalkUpdate(bs[batch.id], newQty, t)],
                           Tail(snap), Max(0, remaining - qtyToRemove), t)

WalkFirstOnly(bs, snap, remaining, t) ==
    IF snap = <<>> \/ remaining <= 0
    THEN [batches |-> bs, remaining |-> remaining]
    ELSE LET batch == Head(snap)
             qtyToRemove == Min(batch.qty, remaining)
             newQty == batch.qty - qtyToRemove
         IN [batches |-> [bs EXCEPT ![batch.id] = WalkUpdate(bs[batch.id], newQty, t)],
             remaining |-> remaining - qtyToRemove]

RECURSIVE Walk(_, _, _, _)
Walk(bs, snap, remaining, t) ==
    IF snap = <<>> \/ remaining <= 0
    THEN [batches |-> bs, remaining |-> remaining]
    ELSE LET batch == Head(snap)
             qtyToRemove == Min(batch.qty, remaining)
             newQty == batch.qty - qtyToRemove
         IN Walk([bs EXCEPT ![batch.id] = WalkUpdate(bs[batch.id], newQty, t)],
                 Tail(snap), remaining - qtyToRemove, t)

\* ------------------------------------------------------- transactions
\* The four tables as one value: what a transaction reads, writes and, when
\* it throws, restores.
DB == [batches |-> batches, counts |-> counts, itemCounts |-> itemCounts, drifts |-> drifts]

\* What a service call gives back: createService turns a throw into an error
\* result; `db` is the tables the call leaves.
Ok(d, ret) == [ok |-> TRUE, db |-> d, ret |-> ret]
Err(d) == [ok |-> FALSE, db |-> d, ret |-> 0]

\* ItemService.getOne: throws unless the id (or a form id; there are no
\* forms) resolves.
getOne(itemId) == itemId \in Items

\* ------------------------------------------------------- service/count.ts
\* CountService.clearDrifts: delete the drift rows of a count, or of one item
\* in it when an item id is given.
clearDriftsWholeCount(dr, countId, itemId) == { r \in dr : r.countId # countId }

clearDriftsNothing(dr, countId, itemId) == dr

clearDrifts(dr, countId, itemId) ==
    { r \in dr : ~(r.countId = countId /\ (itemId = Undefined \/ r.itemId = itemId)) }

\* CountService.getActiveCountsForItem: count INNER JOIN item_count, one row
\* per item_count row of the item, WHERE count.finished_date = NULL.
getActiveCountsForItem(d, itemId) ==
    LET joined == SelectSeq(d.itemCounts, LAMBDA r :
                     /\ r.itemId = itemId
                     /\ SqlTrue(SqlEq(d.counts[r.countId].finishedDate, NULL)))
    IN [i \in DOMAIN joined |-> joined[i].countId]

\* INSERT ... ON CONFLICT (count_id, item_id) DO UPDATE, row by row.
RECURSIVE UpsertDrifts(_, _, _, _)
UpsertDrifts(dr, affected, drift, t) ==
    IF affected = <<>> THEN dr
    ELSE LET c == Head(affected)
             old == { r \in dr : r.countId = c /\ r.itemId = drift.itemId }
             row == IF old = {}
                    THEN [countId |-> c, itemId |-> drift.itemId,
                          qtyChange |-> drift.qtyChange, driftDate |-> t]
                    ELSE LET o == CHOOSE r \in old : TRUE IN
                         [o EXCEPT !.qtyChange = o.qtyChange + drift.qtyChange,
                                   !.driftDate = t]
         IN UpsertDrifts((dr \ old) \cup {row}, Tail(affected), drift, t)

\* CountService.processDrift.  drizzle's insert().values(rows) throws when
\* rows is empty.
processDrift(d, drift, t) ==
    IF drift.qtyChange = 0 THEN Ok(d, 0)
    ELSE LET affectedCounts == getActiveCountsForItem(d, drift.itemId) IN
         IF affectedCounts = <<>> THEN Err(d)
         ELSE Ok([d EXCEPT !.drifts = UpsertDrifts(d.drifts, affectedCounts, drift, t)], 0)

\* CountService.start.
start(d, t) ==
    Ok([d EXCEPT !.counts = Append(d.counts, [startedDate |-> t, finishedDate |-> NULL])],
       Len(d.counts) + 1)

\* CountService.countItem: INSERT ... ON CONFLICT (count_id, item_id, batch_id)
\* DO UPDATE, then clearDrifts for the count and item.  The conflict target is
\* the primary key, whose batch_id may be NULL; a NULL equals nothing.
countItem(d, count, t) ==
    LET hit == { i \in DOMAIN d.itemCounts :
                   /\ d.itemCounts[i].countId = count.countId
                   /\ d.itemCounts[i].itemId = count.itemId
                   /\ SqlTrue(SqlEq(d.itemCounts[i].batchId, count.batchId)) }
        rows == IF hit = {}
                THEN Append(d.itemCounts,
                       [countId |-> count.countId, itemId |-> count.itemId,
                        batchId |-> count.batchId, countedQty |-> count.countedQty,
                        countedDate |-> t])
                ELSE [i \in DOMAIN d.itemCounts |->
                       IF i \in hit
                       THEN [d.itemCounts[i] EXCEPT !.countedQty = count.countedQty,
                                                    !.countedDate = t]
                       ELSE d.itemCounts[i]]
    IN Ok([d EXCEPT !.itemCounts = rows,
                    !.drifts = clearDrifts(d.drifts, count.countId, count.itemId)], 0)

\* ------------------------------------------------------- service/batch.ts
\* BatchService.insert: throws unless the item resolves; status defaults to
\* active, createdDate = nowIso().
insert(d, batch, t) ==
    IF ~getOne(batch.itemId) THEN Err(d)
    ELSE Ok([d EXCEPT !.batches = Append(d.batches,
                [itemId |-> batch.itemId, qty |-> batch.qty, status |-> batch.status,
                 createdDate |-> t, expiryDate |-> batch.expiryDate,
                 stockoutDate |-> NULL])],
            Len(d.batches) + 1)

\* ------------------------------------------------- service/stock.ts (writes)
\* StockService.consume from its read onwards: the walk over the rows read.
consumeWrite(d, snap, quantity, t) ==
    LET w == Walk(d.batches, snap, quantity, t) IN
    Ok([d EXCEPT !.batches = w.batches], w.remaining)

\* StockService.consume, run without interruption: every outcome it can have,
\* one per order in which the batches can be read.
consumeUnchecked(d, itemId, quantity, method, excluded, t) ==
    { consumeWrite(d, snap, quantity, t) :
        snap \in getAllByItem(d.batches, itemId, consumptionMethodOrders[method], excluded) }

consume(d, itemId, quantity, method, excluded, t) ==
    IF quantity < 0 THEN {Err(d)}
    ELSE IF ~getOne(itemId) THEN {Err(d)}
    ELSE { consumeWrite(d, snap, quantity, t) :
             snap \in getAllByItem(d.batches, itemId, consumptionMethodOrders[method], excluded) }

\* StockService.receive: insert and processDrift in one transaction.
receive(d, batch, t) ==
    LET ins == insert(d, batch, t) IN
    IF ~ins.ok THEN Err(d)
    ELSE LET dr == processDrift(ins.db, [itemId |-> batch.itemId, qtyChange |-> batch.qty], t) IN
         IF ~dr.ok THEN Err(d) ELSE Ok(dr.db, ins.ret)

\* One generic adjustment of reconcileCount.  The callbacks of Promise.all
\* issue their reads before any of them writes, so `pre` is what each reads;
\* `d` is what the callbacks before it have written.  The result of receive
\* is not looked at.
GenericAdjustment(pre, d, count, excluded, t) ==
    LET currentQty == getItemQty(pre.batches, count.itemId, "active", excluded)
        offsetQty == count.countedQty - currentQty
    IN IF offsetQty = 0 THEN {Ok(d, 0)}
       ELSE IF offsetQty < 0
       THEN IF ~getOne(count.itemId) THEN {Err(d)}
            ELSE { LET c == consumeWrite(d, snap, Abs(offsetQty), t) IN
                   IF c.ret # 0 THEN Err(d) ELSE c :
                     snap \in getAllByItem(pre.batches, count.itemId,
                                           consumptionMethodOrders[FIFO], excluded) }
       ELSE LET r == receive(d, [itemId |-> count.itemId, qty |-> offsetQty,
                                 status |-> "active", expiryDate |-> NULL], t)
            IN {Ok(r.db, 0)}

RECURSIVE GenericAdjustments(_, _, _, _, _)
GenericAdjustments(pre, ds, rows, excluded, t) ==
    IF rows = <<>> THEN ds
    ELSE GenericAdjustments(pre,
            UNION { IF o.ok THEN GenericAdjustment(pre, o.db, Head(rows), excluded, t)
                    ELSE {o} : o \in ds },
            Tail(rows), excluded, t)

\* One batch adjustment of reconcileCount: BatchService.update of the named
\* batch, whose result is not looked at.
BatchAdjustmentKeepStatus(bs, count) ==
    [bs EXCEPT ![count.batchId].qty = count.countedQty]

BatchAdjustment(bs, count) ==
    [bs EXCEPT ![count.batchId].qty = count.countedQty,
               ![count.batchId].status = IF count.countedQty = 0 THEN "archived" ELSE "active"]

RECURSIVE BatchAdjustments(_, _)
BatchAdjustments(bs, rows) ==
    IF rows = <<>> THEN bs
    ELSE BatchAdjustments(BatchAdjustment(bs, Head(rows)), Tail(rows))

\* StockService.reconcileCount.
reconcileCount(d, countId, t) ==
    LET rows == SelectSeq(d.itemCounts, LAMBDA r : r.countId = countId)
        genericAdjustments == SelectSeq(rows, LAMBDA r : r.batchId = NULL)
        batchAdjustments == SelectSeq(rows, LAMBDA r : r.batchId # NULL)
        batchAdjustmentIds == { batchAdjustments[i].batchId : i \in DOMAIN batchAdjustments }
    IN { IF ~g.ok THEN Err(d)
         ELSE Ok([g.db EXCEPT !.batches = BatchAdjustments(g.db.batches, batchAdjustments)], 0) :
           g \in GenericAdjustments(d, {Ok(d, 0)}, genericAdjustments, batchAdjustmentIds, t) }

finishToggle(d, id, t) ==
    IF id \notin DOMAIN d.counts THEN {Err(d)}
    ELSE { Ok([d EXCEPT !.counts[id].finishedDate = IF @ = NULL THEN t ELSE NULL], id) }

\* CountService.finish: stamp the count, reconcile, clear its drifts; any throw
\* rolls all of it back.
finish(d, id, t) ==
    IF id \notin DOMAIN d.counts THEN {Err(d)}
    ELSE LET updated == [d EXCEPT !.counts[id].finishedDate = t] IN
         { IF ~r.ok THEN Err(d)
           ELSE Ok([r.db EXCEPT !.drifts = clearDrifts(r.db.drifts, id, Undefined)], id) :
             r \in reconcileCount(updated, id, t) }

\* ------------------------------------------------------------------- state
Init ==
    /\ batches = <<>>
    /\ counts = <<>>
    /\ itemCounts = <<>>
    /\ drifts = {}
    /\ now = 1
    /\ calls = [p \in Procs |-> Idle]
    /\ last = Result("init", TRUE, 0, <<>>)

\* The tables and the result an operation leaves.
Commit(op, o, arg) ==
    /\ batches' = o.db.batches
    /\ counts' = o.db.counts
    /\ itemCounts' = o.db.itemCounts
    /\ drifts' = o.db.drifts
    /\ last' = Result(op, o.ok, o.ret, arg)

\* Time passes between two operations.
Tick ==
    /\ now < MaxClock
    /\ now' = now + 1
    /\ UNCHANGED <<db, calls, last>>

\* batch.insert of the batch router: BatchService.insert.
BatchInsert(itemId, qty, status, expiryDate) ==
    /\ Len(batches) < MaxBatches
    /\ Commit("insert",
              insert(DB, [itemId |-> itemId, qty |-> qty, status |-> status,
                          expiryDate |-> expiryDate], now),
              <<itemId, qty>>)
    /\ UNCHANGED <<now, calls>>

\* stock.consume: StockService.consume, one call at a time.
Consume(itemId, quantity, method) ==
    /\ \E o \in consume(DB, itemId, quantity, method, {}, now) :
          Commit("consume", o, <<itemId, quantity, method>>)
    /\ UNCHANGED <<now, calls>>

\* stock.receive: StockService.receive.
Receive(itemId, qty) ==
    /\ Len(batches) < MaxBatches
    /\ Commit("receive",
              receive(DB, [itemId |-> itemId, qty |-> qty, status |-> "active",
                           expiryDate |-> NULL], now),
              <<itemId, qty>>)
    /\ UNCHANGED <<now, calls>>

\* count.start: CountService.start.
Start ==
    /\ Len(counts) < MaxCounts
    /\ Commit("start", start(DB, now), <<>>)
    /\ UNCHANGED <<now, calls>>

\* count.countItem: CountService.countItem.
CountItem(countId, itemId, batchId, countedQty) ==
    /\ countId \in CountIds
    /\ batchId = NULL \/ batchId \in BatchIds
    /\ LET o == countItem(DB, [countId |-> countId, itemId |-> itemId,
                               batchId |-> batchId, countedQty |-> countedQty], now)
       IN /\ Len(o.db.itemCounts) <= MaxItemCounts
          /\ Commit("countItem", o, <<countId, itemId, batchId, countedQty>>)
    /\ UNCHANGED <<now, calls>>

\* count.processDrift: CountService.processDrift.
ProcessDrift(itemId, qtyChange) ==
    /\ Commit("processDrift",
              processDrift(DB, [itemId |-> itemId, qtyChange |-> qtyChange], now),
              <<itemId, qtyChange>>)
    /\ UNCHANGED <<now, calls>>

\* count.finish: CountService.finish.
Finish(id) ==
    /\ \E o \in finish(DB, id, now) : Commit("finish", o, <<id>>)
    /\ UNCHANGED <<now, calls>>

\* StockService.consume up to its transaction, for a caller that runs beside
\* others: the quantity check, the item lookup and the read of the batches,
\* all on the client, before client.transaction is entered.
ConsumeRead(p, itemId, quantity, method) ==
    /\ calls[p].pc = "idle"
    /\ IF quantity < 0 \/ ~getOne(itemId)
       THEN /\ last' = Result("consume", FALSE, 0, <<itemId, quantity, method>>)
            /\ UNCHANGED calls
       ELSE \E snap \in getAllByItem(batches, itemId, consumptionMethodOrders[method], {}) :
              /\ calls' = [calls EXCEPT ![p] = [pc |-> "walk", itemId |-> itemId,
                                                 quantity |-> quantity, method |-> method,
                                                 snap |-> snap]]
              /\ last' = Result("consumeRead", TRUE, 0, <<itemId, quantity, method>>)
    /\ UNCHANGED <<db, now>>

\* The transaction of that consume: the walk over the rows read earlier.
ConsumeWrite(p) ==
    /\ calls[p].pc = "walk"
    /\ Commit("consume", consumeWrite(DB, calls[p].snap, calls[p].quantity, now),
              <<calls[p].itemId, calls[p].quantity, calls[p].method>>)
    /\ calls' = [calls EXCEPT ![p] = Idle]
    /\ UNCHANGED now

\* ---------------------------------------------------------- specifications
ConsumeQtys == 0 .. (MaxQty + 1)

\* Spec: callers insert active batches without expiry and consume item X,
\* FIFO or LIFO, one call at a time; item Y's batches stand by.
InsertX == \E q \in 0..MaxQty : BatchInsert("X", q, "active", NULL)
InsertY == BatchInsert("Y", 1, "active", NULL)
InsertNoItem == BatchInsert(NoItem, 1, "active", NULL)
ConsumeX == \E q \in ConsumeQtys, m \in {FIFO, LIFO} : Consume("X", q, m)
ConsumeNoItem == Consume(NoItem, 1, FIFO)
ConsumeNegative == Consume("X", 0 - 1, FIFO)

Next ==
    \/ Tick
    \/ InsertX
    \/ InsertY
    \/ InsertNoItem
    \/ ConsumeX
    \/ ConsumeNoItem
    \/ ConsumeNegative

Spec == Init /\ [][Next]_vars


\* FefoSpec: callers insert active batches of item X with and without an
\* expiry date and consume FEFO, one call at a time.
ExpiryDates == NULL .. MaxClock
InsertExpiring == \E q \in 1..MaxQty, e \in ExpiryDates : BatchInsert("X", q, "active", e)
ConsumeFefo == \E q \in 1..(MaxQty + 1) : Consume("X", q, FEFO)

FefoNext ==
    \/ Tick
    \/ InsertExpiring
    \/ ConsumeFefo

FefoSpec == Init /\ [][FefoNext]_vars

\* LedgerSpec: the ledger and the count sessions of item X, one call at a
\* time: insert, consume, receive, start, countItem, processDrift, finish.
CountedQtys == (0 - 1) .. MaxQty
LedgerInsert == \E q \in 0..MaxQty : BatchInsert("X", q, "active", NULL)
LedgerConsume == \E q \in 1..MaxQty : Consume("X", q, FIFO)
LedgerReceive == \E q \in CountedQtys : Receive("X", q)
LedgerCount ==
    \E c \in CountIds, b \in {NULL} \cup BatchIds, q \in CountedQtys : CountItem(c, "X", b, q)
LedgerDrift == \E q \in {0 - 1, 0, 1} : ProcessDrift("X", q)
LedgerFinish == \E c \in CountIds : Finish(c)

LedgerNext ==
    \/ LedgerInsert
    \/ LedgerConsume
    \/ LedgerReceive
    \/ Start
    \/ LedgerCount
    \/ LedgerDrift
    \/ LedgerFinish

LedgerSpec == Init /\ [][LedgerNext]_vars

\* DriftSpec: stock of item X changes while sessions that counted it are
\* open; every quantity a caller passes is valid.
DriftInsert == \E q \in 1..MaxQty : BatchInsert("X", q, "active", NULL)
DriftConsume == \E q \in 1..MaxQty : Consume("X", q, FIFO)
DriftReceive == \E q \in 0..MaxQty : Receive("X", q)
DriftCount ==
    \E c \in CountIds, b \in {NULL} \cup BatchIds, q \in 0..MaxQty : CountItem(c, "X", b, q)
DriftProcess == \E q \in {0 - 1, 0, 1} : ProcessDrift("X", q)

DriftNext ==
    \/ DriftInsert
    \/ DriftConsume
    \/ DriftReceive
    \/ Start
    \/ DriftCount
    \/ DriftProcess

DriftSpec == Init /\ [][DriftNext]_vars

\* StoredSpec: the service is started on a database that already holds a
\* batch of item X, open sessions and a drift row stored for every session and
\* item (the key of count_drift); callers count and finish.
StoredBatches ==
    <<[itemId |-> "X", qty |-> 1, status |-> "active", createdDate |-> 1,
       expiryDate |-> NULL, stockoutDate |-> NULL]>>
StoredCounts == [c \in 1..MaxStored |-> [startedDate |-> 1, finishedDate |-> NULL]]
StoredDrifts ==
    { [countId |-> k[1], itemId |-> k[2], qtyChange |-> 1, driftDate |-> 1] :
        k \in (1..MaxStored) \X Items }

StoredInit ==
    /\ batches = StoredBatches
    /\ counts = StoredCounts
    /\ itemCounts = <<>>
    /\ drifts = StoredDrifts
    /\ now = 1
    /\ calls = [p \in Procs |-> Idle]
    /\ last = Result("init", TRUE, 0, <<>>)

StoredCount ==
    \E c \in CountIds, i \in Items, b \in {NULL} \cup BatchIds, q \in 0..1 :
        /\ b # NULL => batches[b].itemId = i
        /\ CountItem(c, i, b, q)
StoredFinish == \E c \in CountIds : Finish(c)

StoredNext ==
    \/ StoredCount
    \/ StoredFinish

StoredSpec == StoredInit /\ [][StoredNext]_vars

\* SessionSpec: sessions are started, counted into and finished while the
\* stock of item X is inserted, consumed and received, one call at a time.
SessionInsert == BatchInsert("X", 1, "active", NULL)
SessionConsume == Consume("X", 1, FIFO)
SessionReceive == Receive("X", 1)
SessionCount == \E c \in CountIds, b \in {NULL} \cup BatchIds : CountItem(c, "X", b, 0)
SessionDrift == ProcessDrift("X", 1)
SessionFinish == \E c \in CountIds : Finish(c)

SessionNext ==
    \/ SessionInsert
    \/ SessionConsume
    \/ SessionReceive
    \/ Start
    \/ SessionCount
    \/ SessionDrift
    \/ SessionFinish

SessionSpec == Init /\ [][SessionNext]_vars

\* ReconcileSpec: batches of item X are inserted and consumed; the session
\* started last counts X, by batch or as a whole; sessions finish.
ReconcileInsert == BatchInsert("X", 1, "active", NULL)
ReconcileConsume == Consume("X", 1, FIFO)
ReconcileCount ==
    \E b \in {NULL} \cup BatchIds, q \in 0..1 : CountItem(Len(counts), "X", b, q)
ReconcileFinish == \E c \in CountIds : Finish(c)

ReconcileNext ==
    \/ ReconcileInsert
    \/ ReconcileConsume
    \/ Start
    \/ ReconcileCount
    \/ ReconcileFinish

ReconcileSpec == Init /\ [][ReconcileNext]_vars

\* ConcSpec: two callers consume item X beside each other; each call reads
\* the batches in one step and runs its transaction in a later one.
ConcInsert == \E q \in 1..MaxQty : BatchInsert("X", q, "active", NULL)
ConcRead == \E p \in Procs, q \in 1..MaxQty : ConsumeRead(p, "X", q, FIFO)
ConcWrite == \E p \in Procs : ConsumeWrite(p)

ConcNext ==
    \/ ConcInsert
    \/ ConcRead
    \/ ConcWrite

ConcSpec == Init /\ [][ConcNext]_vars


\* FrameSpec: callers insert batches of item X in every status and active
\* batches of item Y, and consume either item, one call at a time.
FrameInsertX == \E q \in 1..MaxQty, s \in BatchStatusValues : BatchInsert("X", q, s, NULL)
FrameInsertY == BatchInsert("Y", 1, "active", NULL)
FrameConsume == \E i \in Items, q \in 1..MaxQty, m \in {FIFO, LIFO} : Consume(i, q, m)

FrameNext ==
    \/ FrameInsertX
    \/ FrameInsertY
    \/ FrameConsume

FrameSpec == Init /\ [][FrameNext]_vars


\* RaceSpec: callers insert active batches of item X, run one count session
\* with generic counts of X and finish it, while consume calls on X run
\* beside them, their read and their transaction as separate steps.
RaceInsert == \E q \in 1..MaxQty : BatchInsert("X", q, "active", NULL)
RaceCount == \E q \in 0..MaxQty : CountItem(Len(counts), "X", NULL, q)
RaceRead == \E p \in Procs, q \in 1..MaxQty : ConsumeRead(p, "X", q, FIFO)
RaceWrite == \E p \in Procs : ConsumeWrite(p)
RaceFinish == \E c \in CountIds : Finish(c)

RaceNext ==
    \/ RaceInsert
    \/ Start
    \/ RaceCount
    \/ RaceRead
    \/ RaceWrite
    \/ RaceFinish

RaceSpec == Init /\ [][RaceNext]_vars


\* ShortfallSpec: callers insert active batches of item X, count X in the
\* newest session, generically or by batch, and finish sessions; nothing else
\* removes stock.
ShortfallInsert == BatchInsert("X", MaxQty, "active", NULL)
ShortfallCount ==
    \E b \in {NULL} \cup BatchIds, q \in 0..1 : CountItem(Len(counts), "X", b, q)
ShortfallFinish == \E c \in CountIds : Finish(c)

ShortfallNext ==
    \/ ShortfallInsert
    \/ Start
    \/ ShortfallCount
    \/ ShortfallFinish

ShortfallSpec == Init /\ [][ShortfallNext]_vars


\* ArchiveSpec: callers insert active batches of item X, consume and receive
\* X, count X in the newest session, generically or by batch, and finish
\* sessions, one call at a time.
ArchiveInsert == BatchInsert("X", MaxQty, "active", NULL)
ArchiveConsume == Consume("X", 1, FIFO)
ArchiveReceive == \E q \in 0..1 : Receive("X", q)
ArchiveCount ==
    \E b \in {NULL} \cup BatchIds, q \in 0..1 : CountItem(Len(counts), "X", b, q)
ArchiveFinish == \E c \in CountIds : Finish(c)

ArchiveNext ==
    \/ ArchiveInsert
    \/ ArchiveConsume
    \/ ArchiveReceive
    \/ Start
    \/ ArchiveCount
    \/ ArchiveFinish

ArchiveSpec == Init /\ [][ArchiveNext]_vars

\* ------------------------------------------------------------ the claims
\* The step is a call of operation op: every operation records itself in
\* `last`, and only the passing of time leaves `last` alone.
Called(op) == last'.op = op /\ now' = now

\* An item's total active stock.
TotalActive(bs, itemId) ==
    LET S == { id \in DOMAIN bs : bs[id].itemId = itemId /\ bs[id].status = "active" }
    IN SumOver(S, [id \in S |-> bs[id].qty])

ActiveOf(bs, itemId) == { id \in DOMAIN bs : bs[id].itemId = itemId /\ bs[id].status = "active" }

\* The listings of a set of ids, in any order.
Listings(S) ==
    { s \in [1..Cardinality(S) -> S] : \A i, j \in DOMAIN s : i # j => s[i] # s[j] }

\* What is still to remove when the walk over listing s reaches position k.
RemainingAt(bs, s, k, Q) ==
    LET before == { j \in DOMAIN s : j < k } IN
    Max(0, Q - SumOver(before, [j \in before |-> bs[s[j]].qty]))

\* bs2 is bs after a walk over listing s that takes min(qty, remaining) from
\* each batch and leaves alone the batches it reaches with nothing to remove.
GreedyAlong(bs, bs2, s, Q) ==
    \A k \in DOMAIN s :
        LET rem == RemainingAt(bs, s, k, Q) IN
        IF rem = 0 THEN bs2[s[k]] = bs[s[k]]
        ELSE bs2[s[k]].qty = bs[s[k]].qty - Min(bs[s[k]].qty, rem)

\* C2: a consume of Q >= 0 from an item with total active stock S returns
\* r = max(0, Q - S), lowers the item's total active stock by exactly Q - r,
\* takes min(qty, remaining) from each batch it visits and leaves the batches
\* after the point where nothing remains to remove unchanged.
ConsumptionConservation ==
    [][(Called("consume") /\ last'.arg[1] \in Items /\ last'.arg[2] >= 0) =>
            LET i == last'.arg[1]
                q == last'.arg[2]
                S == TotalActive(batches, i)
                r == last'.ret
            IN /\ last'.ok
               /\ r = Max(0, q - S)
               /\ TotalActive(batches', i) = S - (q - r)
               /\ \E s \in Listings(ActiveOf(batches, i)) : GreedyAlong(batches, batches', s, q)]_vars

\* C2 witness: two batches of MaxQty, MaxQty + 1 consumed FIFO: the first is
\* empty and archived, the second holds MaxQty - 1 and is active, remainder 0.
ConsumptionConservationWitness ==
    /\ last = Result("consume", TRUE, 0, <<"X", MaxQty + 1, FIFO>>)
    /\ Len(batches) >= 2
    /\ batches[1].itemId = "X" /\ batches[1].qty = 0 /\ batches[1].status = "archived"
    /\ batches[1].stockoutDate # NULL
    /\ batches[2].itemId = "X" /\ batches[2].qty = MaxQty - 1 /\ batches[2].status = "active"
    /\ batches[1].createdDate < batches[2].createdDate

\* C3: a consume of Q from an item whose total active stock is S < Q succeeds,
\* returns Q - S and leaves the item with no active stock: every batch that
\* was active is archived.
SoftFailureRemainder ==
    [][(/\ Called("consume")
        /\ last'.arg[1] \in Items
        /\ last'.arg[2] >= 0
        /\ TotalActive(batches, last'.arg[1]) < last'.arg[2]) =>
            /\ last'.ok
            /\ last'.ret = last'.arg[2] - TotalActive(batches, last'.arg[1])
            /\ TotalActive(batches', last'.arg[1]) = 0
            /\ \A b \in ActiveOf(batches, last'.arg[1]) : batches'[b].status = "archived"]_vars

\* C3 witness: a consume came back with a remainder after emptying two batches.
SoftFailureRemainderWitness ==
    /\ last.op = "consume" /\ last.ok /\ last.ret > 0
    /\ last.arg[2] > last.ret
    /\ Cardinality({ b \in BatchIds : /\ batches[b].itemId = last.arg[1]
                                       /\ batches[b].status = "archived"
                                       /\ batches[b].stockoutDate = now }) >= 2
    /\ ActiveOf(batches, last.arg[1]) = {}

\* C4: a batch whose quantity consume brings from above 0 to exactly 0 is
\* archived and stamped with a stockout date in that step; a batch of the item
\* that consume leaves with quantity > 0 stays active and its stockout date is
\* not written.
ArchiveOnDepletion ==
    [][Called("consume") =>
            \A b \in ActiveOf(batches, last'.arg[1]) :
               /\ (batches[b].qty > 0 /\ batches'[b].qty = 0) =>
                     /\ batches'[b].status = "archived"
                     /\ batches'[b].stockoutDate = now
               /\ batches'[b].qty > 0 =>
                     /\ batches'[b].status = "active"
                     /\ batches'[b].stockoutDate = batches[b].stockoutDate]_vars

\* C4 witness: after a consume one batch of the item is archived with a
\* stockout date and another is still active, partly consumed, without one.
ArchiveOnDepletionWitness ==
    /\ last.op = "consume" /\ last.ok
    /\ \E a, b \in BatchIds :
          /\ batches[a].itemId = last.arg[1] /\ batches[b].itemId = last.arg[1]
          /\ batches[a].status = "archived" /\ batches[a].qty = 0
          /\ batches[a].stockoutDate # NULL
          /\ batches[b].status = "active" /\ batches[b].qty > 0
          /\ batches[b].stockoutDate = NULL
          /\ last.arg[2] > MaxQty

FefoBefore(a, b) ==
    \/ a.expiryDate # NULL /\ b.expiryDate = NULL
    \/ a.expiryDate # NULL /\ b.expiryDate # NULL /\ a.expiryDate < b.expiryDate
    \/ a.expiryDate = b.expiryDate /\ a.createdDate < b.createdDate

ConsumptionOrderFefo ==
    [][(Called("consume") /\ last'.arg[3] = FEFO) =>
         \A a, b \in ActiveOf(batches, last'.arg[1]) :
            (batches'[b].qty < batches[b].qty /\ FefoBefore(batches[a], batches[b]))
            => batches'[a].qty = 0]_vars

\* C1: every batch's quantity is >= 0.
NonNegativity == \A b \in BatchIds : batches[b].qty >= 0

\* C8: a consume call that returns remainder r for a request of Q has lowered
\* the item's active stock by Q - r: no other call's update is lost under it,
\* so the stock removed by two calls is the sum of what each reports removed.
ConsumeAtomicity ==
    [][(Called("consume") /\ last'.ok) =>
         TotalActive(batches', last'.arg[1])
            = TotalActive(batches, last'.arg[1]) - (last'.arg[2] - last'.ret)]_vars

\* The open sessions that hold an item-count entry for the item.
OpenCountsOf(itemId) ==
    { c \in CountIds :
        /\ counts[c].finishedDate = NULL
        /\ \E k \in DOMAIN itemCounts :
              itemCounts[k].countId = c /\ itemCounts[k].itemId = itemId }

\* The drift stored for (session, item); 0 when there is no row.
DriftOf(dr, c, itemId) ==
    LET rows == { r \in dr : r.countId = c /\ r.itemId = itemId } IN
    IF rows = {} THEN 0 ELSE (CHOOSE r \in rows : TRUE).qtyChange

HasDrift(dr, c, itemId) == \E r \in dr : r.countId = c /\ r.itemId = itemId

\* C9: when consume removes a quantity q # 0 from an item's active stock, the
\* same step leaves every open session that has counted the item with a drift
\* row whose value is the one before minus q.
ConsumptionRecordsDrift ==
    [][(Called("consume") /\ last'.ok) =>
         LET i == last'.arg[1]
             removed == TotalActive(batches, i) - TotalActive(batches', i)
         IN removed # 0 =>
              \A c \in OpenCountsOf(i) :
                 /\ HasDrift(drifts', c, i)
                 /\ DriftOf(drifts', c, i) = DriftOf(drifts, c, i) - removed]_vars

\* C10: a processDrift of a delta # 0 for an item leaves every open session
\* that has counted the item with a drift row holding the value stored before
\* (0 when there was no row) plus the delta; a row that nets to 0 stays.
DriftAccumulation ==
    [][(Called("processDrift") /\ last'.arg[2] # 0) =>
         \A c \in OpenCountsOf(last'.arg[1]) :
            /\ HasDrift(drifts', c, last'.arg[1])
            /\ DriftOf(drifts', c, last'.arg[1])
                  = DriftOf(drifts, c, last'.arg[1]) + last'.arg[2]]_vars

\* The rows of the drift table that belong to session c.
DriftRowsOf(dr, c) == { r \in dr : r.countId = c }

\* The sessions getActiveCountsForItem returns for an item.
ActiveCountsFor(itemId) ==
    LET rows == getActiveCountsForItem(DB, itemId) IN { rows[k] : k \in DOMAIN rows }

\* C11: getActiveCountsForItem(item) returns exactly the open sessions that
\* hold an item-count entry for the item, and a processDrift of a delta # 0
\* leaves each of those sessions with a drift row for the item and leaves the
\* drift rows of every other session (finished, or without a count of the
\* item) as they were.
DriftAudience ==
    [][/\ \A i \in Items : ActiveCountsFor(i) = OpenCountsOf(i)
       /\ (Called("processDrift") /\ last'.arg[2] # 0) =>
             \A c \in CountIds :
                IF c \in OpenCountsOf(last'.arg[1])
                THEN HasDrift(drifts', c, last'.arg[1])
                ELSE DriftRowsOf(drifts', c) = DriftRowsOf(drifts, c)]_vars

\* The drift rows other than the one of session c and item itemId.
DriftRowsBeside(dr, c, itemId) == { r \in dr : ~(r.countId = c /\ r.itemId = itemId) }

\* C12: a successful countItem(countId, itemId, batchId, qty) stores the entry
\* and, in the same step, leaves no drift row for (countId, itemId); the drift
\* rows of other items of the session and of other sessions are unchanged.
FreshCountSupersedesDrift ==
    [][(Called("countItem") /\ last'.ok) =>
          LET c == last'.arg[1]
              i == last'.arg[2]
          IN /\ ~HasDrift(drifts', c, i)
             /\ DriftRowsBeside(drifts', c, i) = DriftRowsBeside(drifts, c, i)
             /\ \E k \in DOMAIN itemCounts' :
                   /\ itemCounts'[k].countId = c
                   /\ itemCounts'[k].itemId = i
                   /\ itemCounts'[k].batchId = last'.arg[3]
                   /\ itemCounts'[k].countedQty = last'.arg[4]]_vars

\* C12 witness: session 1 has just counted item X: its stored drift row for X
\* is gone, while its row for Y and session 2's row for X are still there.
FreshCountSupersedesDriftWitness ==
    /\ last.op = "countItem" /\ last.ok
    /\ last.arg[1] = 1 /\ last.arg[2] = "X"
    /\ ~HasDrift(drifts, 1, "X")
    /\ HasDrift(drifts, 1, "Y")
    /\ HasDrift(drifts, 2, "X")

\* C13: there is at most one item-count entry per (countId, itemId, batchId),
\* the key whose batchId is absent included: a repeated countItem with the
\* same key updates the entry it finds and adds none.
ItemCountKeyUniqueness ==
    \A j, k \in DOMAIN itemCounts :
        (/\ itemCounts[j].countId = itemCounts[k].countId
         /\ itemCounts[j].itemId = itemCounts[k].itemId
         /\ itemCounts[j].batchId = itemCounts[k].batchId) => j = k

\* C14: a countItem whose counted quantity is negative returns an error and
\* leaves the item-count table and the drift table as they were.
NegativeCountRejected ==
    [][(Called("countItem") /\ last'.arg[4] < 0) =>
          /\ ~last'.ok
          /\ itemCounts' = itemCounts
          /\ drifts' = drifts]_vars

\* C15: a session is created open, and only by start; it becomes finished
\* only by a successful finish of that session; a finished session never
\* becomes open again, and no operation removes a session.
SessionLifecycle ==
    [][/\ Len(counts') >= Len(counts)
       /\ \A c \in DOMAIN counts' :
             IF c \in DOMAIN counts
             THEN /\ counts[c].finishedDate # NULL => counts'[c].finishedDate # NULL
                  /\ (counts[c].finishedDate = NULL /\ counts'[c].finishedDate # NULL) =>
                        /\ Called("finish") /\ last'.ok
                        /\ last'.arg[1] = c
             ELSE /\ Called("start") /\ last'.ok
                  /\ counts'[c].finishedDate = NULL]_vars

\* C15 witness: session 1 was finished, and a countItem against it has run
\* since; it is still finished.
SessionLifecycleWitness ==
    /\ Len(counts) >= 1
    /\ counts[1].finishedDate # NULL
    /\ last.op = "countItem" /\ last.arg[1] = 1

\* The item-count entries of session c, in stored order.
EntriesOf(ics, c) == SelectSeq(ics, LAMBDA r : r.countId = c)

\* C16: a countItem against a session that is finished adds no item-count
\* entry to that session and changes none of its entries.
FinishedAcceptsNoCounts ==
    [][(Called("countItem") /\ counts[last'.arg[1]].finishedDate # NULL) =>
          EntriesOf(itemCounts', last'.arg[1]) = EntriesOf(itemCounts, last'.arg[1])]_vars

\* The batches named by the batch-scoped entries of session c.
NamedBatches(c) ==
    { itemCounts[k].batchId : k \in { j \in DOMAIN itemCounts :
                                        /\ itemCounts[j].countId = c
                                        /\ itemCounts[j].batchId # NULL } }

\* The active quantity of an item outside the batches session c names.
RemainingActive(bs, c, itemId) == getItemQty(bs, itemId, "active", NamedBatches(c))

\* Session c holds a generic entry that counts more than the remaining active
\* stock, and the receive that is to create the found-stock batch fails.
FoundStockFails(c) ==
    \E k \in DOMAIN itemCounts :
        LET r == itemCounts[k]
            offsetQty == r.countedQty - RemainingActive(batches, c, r.itemId)
        IN /\ r.countId = c
           /\ r.batchId = NULL
           /\ offsetQty > 0
           /\ ~receive(DB, [itemId |-> r.itemId, qty |-> offsetQty,
                            status |-> "active", expiryDate |-> NULL], now).ok

\* C17: a finish in which the creation of a found-stock batch fails returns an
\* error; and a finish that returns an error leaves the session open and the
\* batches, item-counts and drift rows exactly as they were.
FinishAllOrNothing ==
    [][Called("finish") =>
          /\ (last'.arg[1] \in CountIds /\ FoundStockFails(last'.arg[1])) => ~last'.ok
          /\ ~last'.ok => db' = db]_vars

\* C18: after a successful finish(countId) no drift row exists for that
\* session, and every drift row key of another session is still there.
FinishClearsDrift ==
    [][(Called("finish") /\ last'.ok) =>
          /\ DriftRowsOf(drifts', last'.arg[1]) = {}
          /\ \A r \in drifts :
                r.countId # last'.arg[1] => HasDrift(drifts', r.countId, r.itemId)]_vars

\* C18 witness: session 1, which held drift rows and a count of item X that
\* made the reconciliation empty the stored batch, has been finished: none of
\* its drift rows is left, and session 2 still has both of its rows.
FinishClearsDriftWitness ==
    /\ last = Result("finish", TRUE, 1, <<1>>)
    /\ counts[1].finishedDate # NULL
    /\ Len(EntriesOf(itemCounts, 1)) >= 1
    /\ batches[1].status = "archived"
    /\ DriftRowsOf(drifts, 1) = {}
    /\ HasDrift(drifts, 2, "X") /\ HasDrift(drifts, 2, "Y")

\* The batch-scoped entries of session c.
BatchEntriesOf(c) == SelectSeq(itemCounts, LAMBDA r : r.countId = c /\ r.batchId # NULL)

\* The generic entries of session c.
GenericEntriesOf(c) == SelectSeq(itemCounts, LAMBDA r : r.countId = c /\ r.batchId = NULL)

RemainingPool(bs, c, itemId) ==
    { b \in DOMAIN bs : /\ bs[b].itemId = itemId
                        /\ bs[b].status = "active"
                        /\ b \notin NamedBatches(c) }

\* C20: a successful finish, for every generic entry of the session whose
\* counted quantity c is below the active quantity R of the item's batches the
\* session does not name, has removed exactly R - c from those batches, in
\* FIFO order, so that their active quantity sums to c afterwards.
GenericShortReconciliation ==
    [][(Called("finish") /\ last'.ok) =>
          LET c == last'.arg[1]
              generic == GenericEntriesOf(c)
          IN \A k \in DOMAIN generic :
                LET i == generic[k].itemId
                    R == RemainingActive(batches, c, i)
                IN R > generic[k].countedQty =>
                      /\ RemainingActive(batches', c, i) = generic[k].countedQty
                      /\ \E s \in OrderedListings(batches, RemainingPool(batches, c, i),
                                    createOrderByValue(consumptionMethodOrders[FIFO])) :
                            GreedyAlong(batches, batches', s, R - generic[k].countedQty)]_vars

\* The batches of an item that a step has created.
CreatedBatches(itemId) ==
    { b \in DOMAIN batches' : b \notin DOMAIN batches /\ batches'[b].itemId = itemId }

\* C21: a successful finish, for every generic entry of the session whose
\* counted quantity c is above the remaining active quantity R of its item,
\* has created exactly one batch for the item, active and of quantity c - R,
\* and has changed no batch of the item that existed before.
GenericFoundStock ==
    [][(Called("finish") /\ last'.ok) =>
          LET c == last'.arg[1]
              generic == GenericEntriesOf(c)
          IN \A k \in DOMAIN generic :
                LET i == generic[k].itemId
                    R == RemainingActive(batches, c, i)
                IN R < generic[k].countedQty =>
                      /\ Cardinality(CreatedBatches(i)) = 1
                      /\ \A b \in CreatedBatches(i) :
                            /\ batches'[b].qty = generic[k].countedQty - R
                            /\ batches'[b].status = "active"
                      /\ \A b \in RemainingPool(batches, c, i) : batches'[b] = batches[b]]_vars

\* C22: a successful finish, for every generic entry of the session whose
\* counted quantity equals the remaining active quantity of its item, has
\* changed none of the item's batches outside those the session names and has
\* created no batch for it; the session is stamped finished and has no drift
\* row left.
ZeroOffsetNoOp ==
    [][(Called("finish") /\ last'.ok) =>
          LET c == last'.arg[1]
              generic == GenericEntriesOf(c)
          IN \A k \in DOMAIN generic :
                LET i == generic[k].itemId IN
                RemainingActive(batches, c, i) = generic[k].countedQty =>
                   /\ CreatedBatches(i) = {}
                   /\ \A b \in BatchIds \ NamedBatches(c) :
                         batches[b].itemId = i => batches'[b] = batches[b]
                   /\ counts'[c].finishedDate # NULL
                   /\ DriftRowsOf(drifts', c) = {}]_vars

ReceiveAtomicWithDrift ==
    [][Called("receive") =>
          LET i == last'.arg[1]
              q == last'.arg[2]
          IN /\ last'.ok = getOne(i)
             /\ last'.ok =>
                   /\ Len(batches') = Len(batches) + 1
                   /\ batches'[Len(batches')].itemId = i
                   /\ batches'[Len(batches')].qty = q
                   /\ \A c \in OpenCountsOf(i) :
                         DriftOf(drifts', c, i) = DriftOf(drifts, c, i) + q
             /\ ~last'.ok => batches' = batches /\ drifts' = drifts]_vars

\* The tables as they were when caller p read its rows, given that the only
\* operation since then is the finish of session c: the rows p read are
\* active with the quantity p saw, and c is open.
BeforeFinish(p, c) ==
    LET snap == calls[p].snap
        seen(b) == { k \in DOMAIN snap : snap[k].id = b }
    IN [DB EXCEPT
          !.batches = [b \in DOMAIN batches |->
                         IF seen(b) = {} THEN batches[b]
                         ELSE [batches[b] EXCEPT
                                 !.qty = snap[CHOOSE k \in seen(b) : TRUE].qty,
                                 !.status = "active",
                                 !.stockoutDate = NULL]],
          !.counts = [counts EXCEPT ![c].finishedDate = NULL]]

\* The transaction of caller p starts right after a successful finish of
\* session c that ran between p's read and now and that held a generic count
\* of p's item.
FinishRanInside(p, c) ==
    /\ calls[p].pc = "walk"
    /\ last.op = "finish" /\ last.ok /\ last.arg[1] = c
    /\ \E k \in DOMAIN itemCounts :
          /\ itemCounts[k].countId = c
          /\ itemCounts[k].itemId = calls[p].itemId
          /\ itemCounts[k].batchId = NULL
    /\ LET pre == BeforeFinish(p, c) IN
       /\ calls[p].snap \in getAllByItem(pre.batches, calls[p].itemId,
                                         consumptionMethodOrders[calls[p].method], {})
       /\ \E f \in finish(pre, c, now) : f.ok /\ f.db = DB

\* What the two operations leave when run one after the other from `pre`: the
\* tables and the remainder consume returns, for either order.
SerialOutcomes(pre, itemId, quantity, method, c, t) ==
    UNION { { [db |-> f.db, ret |-> o.ret] :
                f \in { g \in finish(o.db, c, t) : g.ok } } :
              o \in { g \in consume(pre, itemId, quantity, method, {}, t) : g.ok } }
    \cup
    UNION { { [db |-> o.db, ret |-> o.ret] :
                o \in { g \in consume(f.db, itemId, quantity, method, {}, t) : g.ok } } :
              f \in { g \in finish(pre, c, t) : g.ok } }

\* C25: when the finish of a session with a generic count of X has run
\* between the read and the transaction of a consume on X, the tables and
\* the remainder the consume leaves are those of finish followed by consume
\* or of consume followed by finish.
ConsumeSerializesWithFinish ==
    [][\A p \in Procs, c \in CountIds :
          (FinishRanInside(p, c) /\ Called("consume") /\ calls'[p].pc = "idle") =>
             [db |-> [batches |-> batches', counts |-> counts',
                      itemCounts |-> itemCounts', drifts |-> drifts'],
              ret |-> last'.ret]
               \in SerialOutcomes(BeforeFinish(p, c), calls[p].itemId,
                                  calls[p].quantity, calls[p].method, c, now)]_vars

\* C26: a receive call with a non-zero quantity for an existing item that no
\* open session has counted succeeds, stores one new batch of that quantity
\* and leaves the drift rows as they were.
ReceiveWithoutAudience ==
    [][(/\ Called("receive")
        /\ last'.arg[2] # 0
        /\ getOne(last'.arg[1])
        /\ OpenCountsOf(last'.arg[1]) = {}) =>
          /\ last'.ok
          /\ Len(batches') = Len(batches) + 1
          /\ batches'[Len(batches')].itemId = last'.arg[1]
          /\ batches'[Len(batches')].qty = last'.arg[2]
          /\ drifts' = drifts]_vars

\* The item-count entries session c holds for the item.
EntriesFor(c, itemId) ==
    SelectSeq(itemCounts, LAMBDA r : r.countId = c /\ r.itemId = itemId)

\* C27: a processDrift of a delta # 0 for an item changes the stored drift of
\* an open session that holds two or more item-count entries for the item by
\* the delta, once.
DriftOncePerSession ==
    [][(Called("processDrift") /\ last'.arg[2] # 0) =>
          LET i == last'.arg[1] IN
          \A c \in OpenCountsOf(i) :
             Len(EntriesFor(c, i)) >= 2 =>
                DriftOf(drifts', c, i) = DriftOf(drifts, c, i) + last'.arg[2]]_vars

\* C28: a finish call on a session that is already finished leaves every
\* batch as it was, creates no batch, and leaves the session's finish
\* timestamp as it was.
FinishAtMostOnce ==
    [][Called("finish") =>
          LET c == last'.arg[1] IN
          (c \in CountIds /\ counts[c].finishedDate # NULL) =>
             /\ batches' = batches
             /\ counts'[c].finishedDate = counts[c].finishedDate]_vars

ArchivedBatchesEmpty ==
    \A b \in BatchIds : batches[b].status = "archived" => batches[b].qty = 0

====
